---- MODULE Spec2Model ----
(***************************************************************************)
(* A model of the post service of main.go: the store (posts, nextID)       *)
(* behind the mutex postsMu, and the handlers net/http runs concurrently,  *)
(* one goroutine per request.  Every handler is split at the places where  *)
(* the goroutines can interleave: taking the lock, each read or write of   *)
(* the store, the write of the response, and the deferred Unlock.          *)
(***************************************************************************)
EXTENDS Integers, Sequences, FiniteSets, TLC

(* ------------------------------ bounds -------------------------------- *)

\* Create requests (POST /post/0 reaching the store) accepted in one run.
MaxCreates == 2

\* The goroutines serving requests at the same time.
Procs == {"g1", "g2"}

(* ----------------------------- requests ------------------------------- *)

Methods == {"GET", "POST", "DELETE", "PUT"}

\* The text after "/post/" in the path, one character per element.
Segs == { <<"0">>, <<"1">>, <<"2">>, <<"-", "1">>, <<"a">> }

\* A request body: whether io.ReadAll can read it, and the document it holds.
\* kind: "empty" (no bytes), "syntax" (malformed JSON), "null", "array" (JSON
\* of another shape than an object), "object" (with the fields it carries).
Doc(kind, hasID, ID, hasBody, Body) ==
    [kind |-> kind, hasID |-> hasID, ID |-> ID, hasBody |-> hasBody, Body |-> Body]

EmptyDoc == Doc("empty", FALSE, 0, FALSE, "")

Docs ==
    { EmptyDoc,
      Doc("object", FALSE, 0, TRUE, "a"),
      Doc("object", TRUE, 2, TRUE, "b") }

Bodies ==
    { [readable |-> TRUE, doc |-> d] : d \in Docs }
        \cup { [readable |-> FALSE, doc |-> EmptyDoc] }

NoBody == [readable |-> TRUE, doc |-> EmptyDoc]

\* route: the pattern of main() the path matches; seg: what follows "/post/"
\* in the path (nothing for "/posts").  A request the handlers read no body
\* of (GET, DELETE, PUT, and anything sent to /posts) carries the empty body.
Requests ==
    { [route |-> rt, seg |-> s, method |-> m, body |-> b] :
        rt \in {"/posts", "/post/"}, s \in Segs \cup {<<>>}, m \in Methods, b \in Bodies }

WellFormed(req) ==
    /\ (req.route = "/posts" => req.seg = <<>>)
    /\ (req.method # "POST" \/ req.route = "/posts" => req.body = NoBody)

NoRequest == [route |-> "", seg |-> <<>>, method |-> "", body |-> NoBody]

(* ------------------------------ the Post ------------------------------ *)

Post(ID, Body) == [ID |-> ID, Body |-> Body]

ZeroPost == Post(0, "")

(* ----------------------------- strconv.Atoi --------------------------- *)

Digits == {"0", "1", "2", "3", "4", "5", "6", "7", "8", "9"}

DigitVal(c) ==
    CASE c = "0" -> 0 [] c = "1" -> 1 [] c = "2" -> 2 [] c = "3" -> 3
      [] c = "4" -> 4 [] c = "5" -> 5 [] c = "6" -> 6 [] c = "7" -> 7
      [] c = "8" -> 8 [] c = "9" -> 9

RECURSIVE ParseDigits(_, _)
\* The digits of s read left to right onto the value n so far; err at the
\* first character that is no digit.
ParseDigits(s, n) ==
    IF s = <<>> THEN [err |-> FALSE, n |-> n]
    ELSE IF Head(s) \notin Digits THEN [err |-> TRUE, n |-> 0]
    ELSE ParseDigits(Tail(s), n * 10 + DigitVal(Head(s)))

\* An optional sign, then at least one digit, nothing else.
Atoi(s) ==
    IF s = <<>> THEN [err |-> TRUE, n |-> 0]
    ELSE IF Head(s) \in {"+", "-"}
    THEN IF Tail(s) = <<>> THEN [err |-> TRUE, n |-> 0]
         ELSE LET d == ParseDigits(Tail(s), 0)
              IN  IF d.err THEN d
                  ELSE [err |-> FALSE, n |-> IF Head(s) = "-" THEN 0 - d.n ELSE d.n]
    ELSE ParseDigits(s, 0)

(* --------------------------- json.Unmarshal --------------------------- *)

\* Unmarshal of the document into the Post v: a field the object carries
\* overwrites v's, a field it lacks leaves v's; null leaves v as it is.
Unmarshal(doc, v) ==
    CASE doc.kind = "object" ->
            [err |-> FALSE,
             p   |-> Post(IF doc.hasID THEN doc.ID ELSE v.ID,
                          IF doc.hasBody THEN doc.Body ELSE v.Body)]
      [] doc.kind = "null" -> [err |-> FALSE, p |-> v]
      [] OTHER -> [err |-> TRUE, p |-> v]

(* --------------------------- the response ----------------------------- *)

\* status 0: nothing written yet.  kind: "none", "text" (http.Error),
\* "object" (one Post encoded), "array" (a slice of Posts encoded).
NoResponse == [status |-> 0, kind |-> "none", text |-> "", posts |-> <<>>]

\* The first status written is the response's; later writes only add bytes.
WriteHeader(resp, code) ==
    IF resp.status = 0 THEN [resp EXCEPT !.status = code] ELSE resp

Error(resp, msg, code) ==
    IF resp.status = 0
    THEN [status |-> code, kind |-> "text", text |-> msg, posts |-> <<>>]
    ELSE resp

Encode(resp, kind, vs) ==
    IF resp.kind = "none"
    THEN [status |-> IF resp.status = 0 THEN 200 ELSE resp.status,
          kind |-> kind, text |-> "", posts |-> vs]
    ELSE resp

StatusOK == 200
StatusCreated == 201
StatusBadRequest == 400
StatusNotFound == 404
StatusMethodNotAllowed == 405
StatusInternalServerError == 500

(* ------------------------------ the map ------------------------------- *)

Has(m, k) == k \in DOMAIN m

Insert(m, k, v) == [x \in DOMAIN m \cup {k} |-> IF x = k THEN v ELSE m[x]]

Delete(m, k) == [x \in DOMAIN m \ {k} |-> m[x]]

Lookup(m, k) == IF Has(m, k) THEN m[k] ELSE ZeroPost

Range(s) == { s[i] : i \in DOMAIN s }

(* ------------------------------ state --------------------------------- *)

VARIABLES
    posts,      \* the map id -> Post
    nextID,     \* the next id Create assigns
    postsMu,    \* TRUE while the mutex is locked
    pc,         \* where each goroutine stands in its handler
    r,          \* the request each goroutine serves
    id,         \* the handler's parameter id
    p,          \* the handler's local Post
    ok,         \* the handler's local ok
    ps,         \* handleGetPosts' slice
    iter,       \* the keys handleGetPosts' range loop has visited
    w,          \* the response written so far
    budget,     \* creates the run may still accept
    created,    \* history: <<id, body submitted>> of each 201, in response order
    deleted,    \* history: the id of each DELETE answered 200, in response order
    ever,       \* history: every key posts has held
    acc,        \* history, per request: locks taken, store read or written, store changed
    pre         \* history, per request: the store when the request took the lock

vars == <<posts, nextID, postsMu, pc, r, id, p, ok, ps, iter, w, budget,
          created, deleted, ever, acc, pre>>

store == <<posts, nextID>>
locals == <<r, id, p, ok, ps, iter, w>>
history == <<created, deleted, ever>>

NoAccess == [locks |-> 0, touched |-> FALSE, dirty |-> FALSE]
NoPre == [posts |-> <<>>, nextID |-> 0]

Init ==
    /\ posts = <<>>
    /\ nextID = 1
    /\ postsMu = FALSE
    /\ pc = [g \in Procs |-> "idle"]
    /\ r = [g \in Procs |-> NoRequest]
    /\ id = [g \in Procs |-> 0]
    /\ p = [g \in Procs |-> ZeroPost]
    /\ ok = [g \in Procs |-> FALSE]
    /\ ps = [g \in Procs |-> <<>>]
    /\ iter = [g \in Procs |-> {}]
    /\ w = [g \in Procs |-> NoResponse]
    /\ budget = MaxCreates
    /\ created = <<>>
    /\ deleted = <<>>
    /\ ever = {}
    /\ acc = [g \in Procs |-> NoAccess]
    /\ pre = [g \in Procs |-> NoPre]

\* The history of a step of g that reads or writes the store.
Touch(g) ==
    /\ acc' = [acc EXCEPT ![g].touched = TRUE,
                          ![g].dirty = @ \/ posts' # posts \/ nextID' # nextID]
    /\ ever' = ever \cup DOMAIN posts'

Goto(g, to) == pc' = [pc EXCEPT ![g] = to]

(* ------------------------------ the mutex ----------------------------- *)

\* A Lock that never blocks: the handlers run unguarded.
CanLockAlways == TRUE

\* Lock blocks while another goroutine holds the mutex.
CanLock == ~postsMu

Acquire(g, from, to) ==
    /\ pc[g] = from
    /\ CanLock
    /\ postsMu' = TRUE
    /\ Goto(g, to)
    /\ acc' = [acc EXCEPT ![g].locks = @ + 1]
    /\ pre' = [pre EXCEPT ![g] = [posts |-> posts, nextID |-> nextID]]
    /\ UNCHANGED <<store, locals, budget, history>>

\* The handler returns: its locals are gone, the request is finished and the
\* goroutine is free for the next one.
Finish(g) ==
    /\ Goto(g, "idle")
    /\ r' = [r EXCEPT ![g] = NoRequest]
    /\ id' = [id EXCEPT ![g] = 0]
    /\ p' = [p EXCEPT ![g] = ZeroPost]
    /\ ok' = [ok EXCEPT ![g] = FALSE]
    /\ ps' = [ps EXCEPT ![g] = <<>>]
    /\ iter' = [iter EXCEPT ![g] = {}]
    /\ w' = [w EXCEPT ![g] = NoResponse]
    /\ acc' = [acc EXCEPT ![g] = NoAccess]
    /\ pre' = [pre EXCEPT ![g] = NoPre]

\* The deferred Unlock, run as the handler returns with its response written.
Release(g, from) ==
    /\ pc[g] = from
    /\ postsMu' = FALSE
    /\ Finish(g)
    /\ UNCHANGED <<store, budget, history>>

(* ----------------------------- dispatch ------------------------------ *)

\* A goroutine takes a request: its locals and its history start afresh.
Begin(g, req) ==
    /\ pc[g] = "idle"
    /\ r' = [r EXCEPT ![g] = req]
    /\ UNCHANGED <<store, postsMu, ps, iter, ok, history, acc, pre>>

\* The body's read and parse errors ignored: the handler goes on to the lock
\* with whatever Unmarshal left in p.
ReadAndParseIgnoresErrors(req) ==
    [to |-> "post_lock", p |-> Unmarshal(req.body.doc, ZeroPost).p, w |-> NoResponse]

\* Lines 95-105 of handlePostPost, run before the lock is asked for: what the
\* body read and its parse leave in p and w, and where the handler goes next.
ReadAndParse(req) ==
    IF ~req.body.readable
    THEN [to |-> "done", p |-> ZeroPost,
          w |-> Error(NoResponse, "Error reading request body", StatusInternalServerError)]
    ELSE LET u == Unmarshal(req.body.doc, ZeroPost)
         IN  IF u.err
             THEN [to |-> "done", p |-> ZeroPost,
                   w |-> Error(NoResponse, "Error parsing request body", StatusBadRequest)]
             ELSE [to |-> "post_lock", p |-> u.p, w |-> NoResponse]

\* The switch of postHandler on the method.
Dispatch(req) ==
    CASE req.method = "GET" -> [to |-> "get_lock", p |-> ZeroPost, w |-> NoResponse]
      [] req.method = "POST" -> ReadAndParse(req)
      [] req.method = "DELETE" -> [to |-> "del_lock", p |-> ZeroPost, w |-> NoResponse]
      [] OTHER -> [to |-> "done", p |-> ZeroPost,
                   w |-> Error(NoResponse, "Method not allowed", StatusMethodNotAllowed)]

\* postsHandler without its switch: every method is served as a list.
postsHandlerAnyMethod(g, req) ==
    /\ req.route = "/posts"
    /\ Begin(g, req)
    /\ Goto(g, "list_lock")
    /\ UNCHANGED <<id, p, w, budget>>

\* postsHandler: GET goes to handleGetPosts, any other method is refused.
postsHandler(g, req) ==
    /\ req.route = "/posts"
    /\ Begin(g, req)
    /\ IF req.method = "GET"
       THEN /\ Goto(g, "list_lock")
            /\ UNCHANGED w
       ELSE /\ Goto(g, "done")
            /\ w' = [w EXCEPT ![g] =
                        Error(NoResponse, "Method not allowed", StatusMethodNotAllowed)]
    /\ UNCHANGED <<id, p, budget>>

\* postHandler without the return after "Invalid post ID": the switch runs
\* with the id 0 that the failed Atoi left.
postHandlerNoReturn(g, req) ==
    /\ req.route = "/post/"
    /\ Begin(g, req)
    /\ LET a == Atoi(req.seg)
           first == IF a.err
                    THEN Error(NoResponse, "Invalid post ID", StatusBadRequest)
                    ELSE NoResponse
           d == Dispatch(req)
           creates == d.to = "post_lock" /\ a.n = 0
       IN  /\ creates => budget > 0
           /\ budget' = IF creates THEN budget - 1 ELSE budget
           /\ id' = [id EXCEPT ![g] = IF d.to = "done" THEN 0 ELSE a.n]
           /\ p' = [p EXCEPT ![g] = d.p]
           /\ w' = [w EXCEPT ![g] = IF d.w.status = 0 THEN first
                                    ELSE Error(first, d.w.text, d.w.status)]
           /\ Goto(g, d.to)

\* postHandler: the id out of the path, then the switch on the method; for a
\* POST the body is read and parsed before handlePostPost asks for the lock.
postHandler(g, req) ==
    /\ req.route = "/post/"
    /\ Begin(g, req)
    /\ LET a == Atoi(req.seg)
       IN  IF a.err
           THEN /\ Goto(g, "done")
                /\ w' = [w EXCEPT ![g] =
                            Error(NoResponse, "Invalid post ID", StatusBadRequest)]
                /\ UNCHANGED <<id, p, budget>>
           ELSE LET d == Dispatch(req)
                    creates == d.to = "post_lock" /\ a.n = 0
                IN  /\ creates => budget > 0
                    /\ budget' = IF creates THEN budget - 1 ELSE budget
                    /\ id' = [id EXCEPT ![g] = IF d.to = "done" THEN 0 ELSE a.n]
                    /\ p' = [p EXCEPT ![g] = d.p]
                    /\ w' = [w EXCEPT ![g] = d.w]
                    /\ Goto(g, d.to)

\* A handler that answered without asking for the lock returns.
Return(g) ==
    /\ pc[g] = "done"
    /\ Finish(g)
    /\ UNCHANGED <<store, postsMu, budget, history>>

(* --------------------------- handleGetPosts --------------------------- *)

\* handleGetPosts entered without the Lock.
handleGetPosts_NoLock(g) ==
    /\ pc[g] = "list_lock"
    /\ Goto(g, "list_copy")
    /\ pre' = [pre EXCEPT ![g] = [posts |-> posts, nextID |-> nextID]]
    /\ UNCHANGED <<store, postsMu, locals, budget, history, acc>>

handleGetPosts_Lock(g) == Acquire(g, "list_lock", "list_copy")

\* One turn of the range loop: the map hands out an entry the loop has not
\* visited yet, in an order of its choosing, and its value is appended to ps.
handleGetPosts_Next(g) ==
    /\ pc[g] = "list_copy"
    /\ \E k \in DOMAIN posts \ iter[g] :
          /\ ps' = [ps EXCEPT ![g] = Append(@, posts[k])]
          /\ iter' = [iter EXCEPT ![g] = @ \cup {k}]
    /\ UNCHANGED <<store, postsMu, pc, r, id, p, ok, w, budget, created, deleted, pre>>
    /\ Touch(g)

\* The loop finds no entry left, and ps is encoded into the response.
handleGetPosts_Encode(g) ==
    /\ pc[g] = "list_copy"
    /\ DOMAIN posts \ iter[g] = {}
    /\ w' = [w EXCEPT ![g] = Encode(@, "array", ps[g])]
    /\ Goto(g, "list_unlock")
    /\ UNCHANGED <<store, postsMu, r, id, p, ok, ps, iter, budget, created, deleted, pre>>
    /\ Touch(g)

handleGetPosts_Unlock(g) == Release(g, "list_unlock")

(* --------------------------- handleGetPost ---------------------------- *)

handleGetPost_Lock(g) == Acquire(g, "get_lock", "get_lookup")

handleGetPost_Lookup(g) ==
    /\ pc[g] = "get_lookup"
    /\ p' = [p EXCEPT ![g] = Lookup(posts, id[g])]
    /\ ok' = [ok EXCEPT ![g] = Has(posts, id[g])]
    /\ Goto(g, "get_write")
    /\ UNCHANGED <<store, postsMu, r, id, ps, iter, w, budget, created, deleted, pre>>
    /\ Touch(g)

\* The mutex unlocked before the response is written, not by defer.
handleGetPost_WriteAfterUnlock(g) ==
    /\ pc[g] = "get_write"
    /\ postsMu' = FALSE
    /\ w' = [w EXCEPT ![g] =
                IF ~ok[g] THEN Error(@, "Post not found", StatusNotFound)
                ELSE Encode(@, "object", <<p[g]>>)]
    /\ Goto(g, "get_unlock")
    /\ UNCHANGED <<store, r, id, p, ok, ps, iter, budget, history, acc, pre>>

handleGetPost_Write(g) ==
    /\ pc[g] = "get_write"
    /\ w' = [w EXCEPT ![g] =
                IF ~ok[g] THEN Error(@, "Post not found", StatusNotFound)
                ELSE Encode(@, "object", <<p[g]>>)]
    /\ Goto(g, "get_unlock")
    /\ UNCHANGED <<store, postsMu, r, id, p, ok, ps, iter, budget, history, acc, pre>>

handleGetPost_Unlock(g) == Release(g, "get_unlock")

(* --------------------------- handlePostPost --------------------------- *)

\* The branch taken on id <= 0 instead of id == 0.
handlePostPost_LockNonPositive(g) ==
    Acquire(g, "post_lock", IF id[g] <= 0 THEN "create_assign" ELSE "update_lookup")

\* With the lock held the handler branches on id == 0.
handlePostPost_Lock(g) ==
    Acquire(g, "post_lock", IF id[g] = 0 THEN "create_assign" ELSE "update_lookup")

\* p.ID = len(posts) + 1: the id taken from the size of the map.
handlePostPost_AssignByCount(g) ==
    /\ pc[g] = "create_assign"
    /\ p' = [p EXCEPT ![g].ID = Cardinality(DOMAIN posts) + 1]
    /\ Goto(g, "create_incr")
    /\ UNCHANGED <<store, postsMu, r, id, ok, ps, iter, w, budget, created, deleted, pre>>
    /\ Touch(g)

\* The id assigned only when the client sent none.
handlePostPost_AssignIfUnset(g) ==
    /\ pc[g] = "create_assign"
    /\ p' = [p EXCEPT ![g].ID = IF @ = 0 THEN nextID ELSE @]
    /\ Goto(g, "create_incr")
    /\ UNCHANGED <<store, postsMu, r, id, ok, ps, iter, w, budget, created, deleted, pre>>
    /\ Touch(g)

\* p.ID = nextID
handlePostPost_Assign(g) ==
    /\ pc[g] = "create_assign"
    /\ p' = [p EXCEPT ![g].ID = nextID]
    /\ Goto(g, "create_incr")
    /\ UNCHANGED <<store, postsMu, r, id, ok, ps, iter, w, budget, created, deleted, pre>>
    /\ Touch(g)

\* The increment left out.
handlePostPost_NoIncrement(g) ==
    /\ pc[g] = "create_incr"
    /\ Goto(g, "create_insert")
    /\ UNCHANGED <<store, postsMu, locals, budget, created, deleted, pre>>
    /\ Touch(g)

\* nextID++
handlePostPost_Increment(g) ==
    /\ pc[g] = "create_incr"
    /\ nextID' = nextID + 1
    /\ Goto(g, "create_insert")
    /\ UNCHANGED <<posts, postsMu, locals, budget, created, deleted, pre>>
    /\ Touch(g)

\* posts[id] = p: the insert keyed by the path's id, which is 0 here.
handlePostPost_InsertAtPathID(g) ==
    /\ pc[g] = "create_insert"
    /\ posts' = Insert(posts, id[g], p[g])
    /\ Goto(g, "create_write")
    /\ UNCHANGED <<nextID, postsMu, locals, budget, created, deleted, pre>>
    /\ Touch(g)

\* posts[p.ID] = p
handlePostPost_Insert(g) ==
    /\ pc[g] = "create_insert"
    /\ posts' = Insert(posts, p[g].ID, p[g])
    /\ Goto(g, "create_write")
    /\ UNCHANGED <<nextID, postsMu, locals, budget, created, deleted, pre>>
    /\ Touch(g)

\* The body a create request submits: the "body" field of its document.
Submitted(req) == Unmarshal(req.body.doc, ZeroPost).p.Body

\* 201 and the created post p; the history notes the id it carries and the
\* body the request had submitted.
handlePostPost_WriteCreated(g) ==
    /\ pc[g] = "create_write"
    /\ w' = [w EXCEPT ![g] = Encode(WriteHeader(@, StatusCreated), "object", <<p[g]>>)]
    /\ created' = Append(created, <<p[g].ID, Submitted(r[g])>>)
    /\ Goto(g, "post_unlock")
    /\ UNCHANGED <<store, postsMu, r, id, p, ok, ps, iter, budget, deleted, ever, acc, pre>>

\* An update that keeps the submitted body: only the id comes from the store.
handlePostPost_LookupKeepsBody(g) ==
    /\ pc[g] = "update_lookup"
    /\ p' = [p EXCEPT ![g] = IF Has(posts, id[g]) THEN Post(id[g], @.Body) ELSE ZeroPost]
    /\ ok' = [ok EXCEPT ![g] = Has(posts, id[g])]
    /\ Goto(g, "update_check")
    /\ UNCHANGED <<store, postsMu, r, id, ps, iter, w, budget, created, deleted, pre>>
    /\ Touch(g)

\* p, ok := posts[id]
handlePostPost_Lookup(g) ==
    /\ pc[g] = "update_lookup"
    /\ p' = [p EXCEPT ![g] = Lookup(posts, id[g])]
    /\ ok' = [ok EXCEPT ![g] = Has(posts, id[g])]
    /\ Goto(g, "update_check")
    /\ UNCHANGED <<store, postsMu, r, id, ps, iter, w, budget, created, deleted, pre>>
    /\ Touch(g)

\* posts[p.ID] = p placed before the ok check: the zero Post is stored.
handlePostPost_NotFoundStores(g) ==
    /\ pc[g] = "update_check"
    /\ ~ok[g]
    /\ posts' = Insert(posts, p[g].ID, p[g])
    /\ w' = [w EXCEPT ![g] = Error(@, "Post not found", StatusNotFound)]
    /\ Goto(g, "post_unlock")
    /\ UNCHANGED <<nextID, postsMu, r, id, p, ok, ps, iter, budget, created, deleted, pre>>
    /\ Touch(g)

\* The 404 path returning with the mutex still locked.
handlePostPost_NotFoundKeepsLock(g) ==
    /\ pc[g] = "update_check"
    /\ ~ok[g]
    /\ Finish(g)
    /\ UNCHANGED <<store, postsMu, budget, history>>

handlePostPost_NotFound(g) ==
    /\ pc[g] = "update_check"
    /\ ~ok[g]
    /\ w' = [w EXCEPT ![g] = Error(@, "Post not found", StatusNotFound)]
    /\ Goto(g, "post_unlock")
    /\ UNCHANGED <<store, postsMu, r, id, p, ok, ps, iter, budget, history, acc, pre>>

\* posts[p.ID] = p, with the p the lookup fetched
handlePostPost_Store(g) ==
    /\ pc[g] = "update_check"
    /\ ok[g]
    /\ posts' = Insert(posts, p[g].ID, p[g])
    /\ Goto(g, "update_write")
    /\ UNCHANGED <<nextID, postsMu, locals, budget, created, deleted, pre>>
    /\ Touch(g)

handlePostPost_WriteUpdated(g) ==
    /\ pc[g] = "update_write"
    /\ w' = [w EXCEPT ![g] = Encode(WriteHeader(@, StatusOK), "object", <<p[g]>>)]
    /\ Goto(g, "post_unlock")
    /\ UNCHANGED <<store, postsMu, r, id, p, ok, ps, iter, budget, history, acc, pre>>

handlePostPost_Unlock(g) == Release(g, "post_unlock")

(* -------------------------- handleDeletePost -------------------------- *)

handleDeletePost_Lock(g) == Acquire(g, "del_lock", "del_lookup")

\* _, ok := posts[id]
handleDeletePost_Lookup(g) ==
    /\ pc[g] = "del_lookup"
    /\ ok' = [ok EXCEPT ![g] = Has(posts, id[g])]
    /\ Goto(g, "del_check")
    /\ UNCHANGED <<store, postsMu, r, id, p, ps, iter, w, budget, created, deleted, pre>>
    /\ Touch(g)

handleDeletePost_NotFound(g) ==
    /\ pc[g] = "del_check"
    /\ ~ok[g]
    /\ w' = [w EXCEPT ![g] = Error(@, "Post not found", StatusNotFound)]
    /\ Goto(g, "del_unlock")
    /\ UNCHANGED <<store, postsMu, r, id, p, ok, ps, iter, budget, history, acc, pre>>

\* The handler answers 200 without the delete.
handleDeletePost_DeleteNothing(g) ==
    /\ pc[g] = "del_check"
    /\ ok[g]
    /\ Goto(g, "del_write")
    /\ UNCHANGED <<store, postsMu, locals, budget, created, deleted, pre>>
    /\ Touch(g)

\* delete(posts, id)
handleDeletePost_Delete(g) ==
    /\ pc[g] = "del_check"
    /\ ok[g]
    /\ posts' = Delete(posts, id[g])
    /\ Goto(g, "del_write")
    /\ UNCHANGED <<nextID, postsMu, locals, budget, created, deleted, pre>>
    /\ Touch(g)

handleDeletePost_WriteOK(g) ==
    /\ pc[g] = "del_write"
    /\ w' = [w EXCEPT ![g] = WriteHeader(@, StatusOK)]
    /\ deleted' = Append(deleted, id[g])
    /\ Goto(g, "del_unlock")
    /\ UNCHANGED <<store, postsMu, r, id, p, ok, ps, iter, budget, created, ever, acc, pre>>

handleDeletePost_Unlock(g) == Release(g, "del_unlock")

(* --------------------------- specification ---------------------------- *)

Inputs == { req \in Requests : WellFormed(req) }

Next ==
    \E g \in Procs :
        \/ \E req \in Inputs : postsHandler(g, req)
        \/ \E req \in Inputs : postHandler(g, req)
        \/ Return(g)
        \/ handleGetPosts_Lock(g)
        \/ handleGetPosts_Next(g)
        \/ handleGetPosts_Encode(g)
        \/ handleGetPosts_Unlock(g)
        \/ handleGetPost_Lock(g)
        \/ handleGetPost_Lookup(g)
        \/ handleGetPost_Write(g)
        \/ handleGetPost_Unlock(g)
        \/ handlePostPost_Lock(g)
        \/ handlePostPost_Assign(g)
        \/ handlePostPost_Increment(g)
        \/ handlePostPost_Insert(g)
        \/ handlePostPost_WriteCreated(g)
        \/ handlePostPost_Lookup(g)
        \/ handlePostPost_NotFound(g)
        \/ handlePostPost_Store(g)
        \/ handlePostPost_WriteUpdated(g)
        \/ handlePostPost_Unlock(g)
        \/ handleDeletePost_Lock(g)
        \/ handleDeletePost_Lookup(g)
        \/ handleDeletePost_NotFound(g)
        \/ handleDeletePost_Delete(g)
        \/ handleDeletePost_WriteOK(g)
        \/ handleDeletePost_Unlock(g)

Spec == Init /\ [][Next]_vars

\* A goroutine blocked in Lock takes the mutex.
LockStep(g) ==
    \/ handleGetPosts_Lock(g)
    \/ handleGetPost_Lock(g)
    \/ handlePostPost_Lock(g)
    \/ handleDeletePost_Lock(g)

\* Any other step of a handler that has started.
HandlerStep(g) ==
    \/ Return(g)
    \/ handleGetPosts_Next(g)
    \/ handleGetPosts_Encode(g)
    \/ handleGetPosts_Unlock(g)
    \/ handleGetPost_Lookup(g)
    \/ handleGetPost_Write(g)
    \/ handleGetPost_Unlock(g)
    \/ handlePostPost_Assign(g)
    \/ handlePostPost_Increment(g)
    \/ handlePostPost_Insert(g)
    \/ handlePostPost_WriteCreated(g)
    \/ handlePostPost_Lookup(g)
    \/ handlePostPost_NotFound(g)
    \/ handlePostPost_Store(g)
    \/ handlePostPost_WriteUpdated(g)
    \/ handlePostPost_Unlock(g)
    \/ handleDeletePost_Lookup(g)
    \/ handleDeletePost_NotFound(g)
    \/ handleDeletePost_Delete(g)
    \/ handleDeletePost_WriteOK(g)
    \/ handleDeletePost_Unlock(g)

\* The scheduler runs every goroutine that can run, and the mutex hands
\* itself to a goroutine that keeps waiting for it; requests need not arrive.
FairSpec ==
    /\ Spec
    /\ \A g \in Procs : WF_vars(HandlerStep(g)) /\ SF_vars(LockStep(g))

(* ------------------------ vocabulary of the claims -------------------- *)

CreatedIds == { created[i][1] : i \in DOMAIN created }

DeletedIds == Range(deleted)

\* The ids a Create has returned and no DELETE has answered 200 for.
LiveIds == CreatedIds \ DeletedIds

\* The body submitted by the Create that returned id i.
BodyOf(i) == created[CHOOSE k \in DOMAIN created : created[k][1] = i][2]

Distinct(s) == \A i, j \in DOMAIN s : i # j => s[i] # s[j]

\* The places of a handler between its Lock and its deferred Unlock.
Critical ==
    { "list_copy", "list_unlock",
      "get_lookup", "get_write", "get_unlock",
      "create_assign", "create_incr", "create_insert", "create_write",
      "update_lookup", "update_check", "update_write", "post_unlock",
      "del_lookup", "del_check", "del_write", "del_unlock" }

\* No handler is between its Lock and its Unlock.
Quiet == \A g \in Procs : pc[g] \notin Critical

ErrorStatuses ==
    { StatusBadRequest, StatusNotFound, StatusMethodNotAllowed, StatusInternalServerError }

NotFound == Error(NoResponse, "Post not found", StatusNotFound)

\* The path segment is an optional sign followed by one or more digits.
IsDecimal(s) ==
    LET ds == IF s # <<>> /\ Head(s) \in {"+", "-"} THEN Tail(s) ELSE s
    IN  ds # <<>> /\ \A i \in DOMAIN ds : ds[i] \in Digits

(* ------------------------------- claims ------------------------------- *)

\* C1: the ids the successful Creates return, taken in the order the creates
\* held the lock (the order of their 201 responses), are strictly increasing,
\* so none is returned twice, whatever deletes ran in between.
C1_IdsStrictlyIncreasing ==
    \A i, j \in DOMAIN created : i < j => created[i][1] < created[j][1]

\* A second Create has answered after it took the lock on a store that a
\* Delete had emptied: the first post was removed between the two creates.
C1_Witness ==
    \E g \in Procs :
        /\ pc[g] = "post_unlock"
        /\ w[g].status = StatusCreated
        /\ Len(created) = 2
        /\ deleted = <<1>>
        /\ pre[g].posts = <<>>

\* C2: whenever no handler is inside its critical section, the creates that
\* ran (concurrently, on separate goroutines) have each left their post: the
\* store holds one post per 201 not deleted since, under the id the response
\* carried and with the body submitted, the ids of the responses are pairwise
\* distinct, and nextID has advanced by one per 201.  With no Delete between
\* two such states, N creates add exactly N posts and N to nextID.
C2_ConcurrentCreates ==
    /\ Distinct([i \in DOMAIN created |-> created[i][1]])
    /\ Quiet =>
        /\ nextID = 1 + Len(created)
        /\ Cardinality(DOMAIN posts) = Len(created) - Len(deleted)
        /\ DOMAIN posts = LiveIds
        /\ \A i \in DOMAIN posts : posts[i] = Post(i, BodyOf(i))

\* Two creates run at the same time on separate goroutines: one has answered
\* 201 and still holds the lock, the other waits for it.
C2_Witness ==
    \E g, h \in Procs :
        /\ g # h
        /\ pc[g] = "post_unlock" /\ w[g].status = StatusCreated
        /\ pc[h] = "post_lock" /\ id[h] = 0
        /\ deleted = <<>>

\* C3: a GET /post/i for an id i that a Create returned for the body b, and
\* that no Delete has removed since, answers 200 with the post (i, b).
C3_RoundTrip ==
    \A g \in Procs :
        (pc[g] = "get_unlock" /\ id[g] \in LiveIds) =>
            w[g] = Encode(NoResponse, "object", <<Post(id[g], BodyOf(id[g]))>>)

\* A GET has answered 200 with the second post created and the body its
\* Create submitted.
C3_Witness ==
    \E g \in Procs :
        /\ pc[g] = "get_unlock"
        /\ id[g] = 2
        /\ Len(created) = 2
        /\ w[g].status = StatusOK
        /\ w[g].posts = <<Post(2, created[2][2])>>

\* C4: a GET or DELETE of an id that no Create has returned, or that a DELETE
\* has since removed, finds nothing under the id and answers 404.
C4_NotFoundConsistency ==
    \A g \in Procs :
        /\ (pc[g] \in {"get_write", "del_check"} /\ id[g] \notin LiveIds) => ~ok[g]
        /\ (pc[g] \in {"get_unlock", "del_unlock"} /\ ~ok[g]) => w[g] = NotFound

\* A GET of a deleted id has answered 404 while a DELETE of an id never
\* assigned waits its turn.
C4_Witness ==
    \E g, h \in Procs :
        /\ pc[g] = "get_unlock" /\ id[g] \in DeletedIds /\ w[g] = NotFound
        /\ pc[h] = "del_lock" /\ id[h] \notin CreatedIds

\* C5: a DELETE answers 200 exactly when the id was in the store as it took
\* the lock, and then the entry is gone; an id a DELETE has answered 200 for
\* never comes back into the store, whatever else runs, so no id is answered
\* 200 twice and the next DELETE of it answers 404.
C5_DeleteTwice ==
    /\ Distinct(deleted)
    /\ DeletedIds \cap DOMAIN posts = {}
    /\ \A g \in Procs :
          pc[g] = "del_unlock" =>
              /\ ~Has(posts, id[g])
              /\ IF Has(pre[g].posts, id[g])
                 THEN w[g] = WriteHeader(NoResponse, StatusOK)
                 ELSE w[g] = NotFound

\* The second DELETE of post 1 has answered 404, a Create having run between
\* the two (post 2 is in the store).
C5_Witness ==
    \E g \in Procs :
        /\ pc[g] = "del_unlock"
        /\ id[g] = 1
        /\ deleted = <<1>>
        /\ w[g].status = StatusNotFound
        /\ Has(posts, 2)

\* C6: a POST /post/{id} with id # 0 and a parsable body, for an id in the
\* store as the handler takes the lock, answers 200 with the post as it was
\* stored, and leaves posts and nextID as they were.
C6_UpdateIsNoOp ==
    \A g \in Procs :
        (pc[g] = "post_unlock" /\ id[g] # 0 /\ Has(pre[g].posts, id[g])) =>
            /\ w[g] = Encode(WriteHeader(NoResponse, StatusOK), "object",
                             <<pre[g].posts[id[g]]>>)
            /\ posts = pre[g].posts
            /\ nextID = pre[g].nextID

\* An update has answered for a stored post whose body and id both differ
\* from the ones the request submitted.
C6_Witness ==
    \E g \in Procs :
        /\ pc[g] = "post_unlock"
        /\ id[g] = 1
        /\ w[g].status = StatusOK
        /\ r[g].body.doc.hasID /\ r[g].body.doc.ID # 1
        /\ r[g].body.doc.Body # w[g].posts[1].Body

\* C7: a POST /post/{id} with id # 0 for an id no Create has returned answers
\* 404 "Post not found", and posts and nextID are as they were when the
\* handler took the lock.
C7_UpdateOfUnknownId ==
    \A g \in Procs :
        (/\ r[g].method = "POST"
         /\ pc[g] = "post_unlock"
         /\ Atoi(r[g].seg).n # 0
         /\ Atoi(r[g].seg).n \notin CreatedIds) =>
            /\ w[g] = NotFound
            /\ posts = pre[g].posts
            /\ nextID = pre[g].nextID

\* POST /post/1 has answered 404 on the store as constructed: nothing was
\* ever created.
C7_Witness ==
    \E g \in Procs :
        /\ pc[g] = "post_unlock"
        /\ r[g].method = "POST"
        /\ r[g].seg = <<"1">>
        /\ created = <<>>
        /\ w[g] = NotFound
        /\ posts = <<>>
        /\ nextID = 1

\* C8: a request whose response carries an error status (400, 404, 405 or
\* 500) has changed neither posts nor nextID in any of its steps.
C8_ErrorsLeaveStore ==
    \A g \in Procs : w[g].status \in ErrorStatuses => ~acc[g].dirty

\* On a store that holds a post, an update of an unknown id has answered 404
\* after reading the store under the lock, and a POST whose body cannot be
\* read has answered 500 without reaching it.
C8_Witness ==
    \E g, h \in Procs :
        /\ pc[g] = "post_unlock" /\ w[g].status = StatusNotFound /\ acc[g].touched
        /\ pc[h] = "done" /\ w[h].status = StatusInternalServerError
        /\ DOMAIN posts # {}

\* C9: a request under /post/ whose segment is not a base-10 integer is
\* answered 400 "Invalid post ID" at once, whatever its method and body; it
\* never takes the lock and never reads or writes posts or nextID.
C9_InvalidId ==
    \A g \in Procs :
        (r[g].route = "/post/" /\ ~IsDecimal(r[g].seg)) =>
            /\ pc[g] = "done"
            /\ w[g] = Error(NoResponse, "Invalid post ID", StatusBadRequest)
            /\ acc[g] = NoAccess

\* GET /post/a and a POST /post/ (no id at all) with a parsable body have
\* both been answered 400.
C9_Witness ==
    \E g, h \in Procs :
        /\ r[g].route = "/post/" /\ r[g].seg = <<"a">> /\ r[g].method = "GET"
        /\ w[g].status = StatusBadRequest
        /\ r[h].route = "/post/" /\ r[h].seg = <<>> /\ r[h].method = "POST"
        /\ r[h].body.doc.kind = "object"
        /\ w[h].status = StatusBadRequest

\* C10: a request to /posts with a method other than GET, and a request to
\* /post/{id} with an integer id and a method other than GET, POST or DELETE,
\* is answered 405 "Method not allowed" at once; it never takes the lock and
\* never reads or writes posts or nextID.
C10_MethodNotAllowed ==
    \A g \in Procs :
        (\/ r[g].route = "/posts" /\ r[g].method # "GET"
         \/ /\ r[g].route = "/post/"
            /\ IsDecimal(r[g].seg)
            /\ r[g].method \notin {"GET", "POST", "DELETE"}) =>
            /\ pc[g] = "done"
            /\ w[g] = Error(NoResponse, "Method not allowed", StatusMethodNotAllowed)
            /\ acc[g] = NoAccess

\* DELETE /posts and PUT /post/1 have both been answered 405.
C10_Witness ==
    \E g, h \in Procs :
        /\ r[g].route = "/posts" /\ r[g].method = "DELETE"
        /\ w[g].status = StatusMethodNotAllowed
        /\ r[h].route = "/post/" /\ r[h].seg = <<"1">> /\ r[h].method = "PUT"
        /\ w[h].status = StatusMethodNotAllowed

\* C11: a Create answers 201 with the post (n, b), n being nextID as the
\* handler took the lock (so n >= 1) and b the body submitted; it leaves
\* nextID = n + 1 and posts with that one post added under n, every other
\* entry as it was; an id sent in the request body plays no part.
C11_Create ==
    \A g \in Procs :
        (pc[g] = "post_unlock" /\ id[g] = 0) =>
            LET n == pre[g].nextID
                v == Post(n, Submitted(r[g]))
            IN  /\ n >= 1
                /\ w[g] = Encode(WriteHeader(NoResponse, StatusCreated), "object", <<v>>)
                /\ nextID = n + 1
                /\ ~Has(pre[g].posts, n)
                /\ posts = Insert(pre[g].posts, n, v)

\* A Create whose body carried the id 2 has answered 201 with the id 1, next
\* to nothing else in the store.
C11_Witness ==
    \E g \in Procs :
        /\ pc[g] = "post_unlock"
        /\ id[g] = 0
        /\ r[g].body.doc.hasID /\ r[g].body.doc.ID = 2
        /\ w[g].status = StatusCreated
        /\ w[g].posts = <<Post(1, "b")>>
        /\ nextID = 2

\* The values a map holds.
Values(m) == { m[k] : k \in DOMAIN m }

\* C12: GET /posts answers 200 with an array holding, once each, exactly the
\* posts the store held when the handler took the lock; the store stays as it
\* was from then until the response is written, so the array is the store of
\* one instant, and the request changes neither posts nor nextID.
C12_ListSnapshot ==
    \A g \in Procs :
        /\ pc[g] \in {"list_copy", "list_unlock"} =>
              /\ posts = pre[g].posts
              /\ nextID = pre[g].nextID
              /\ ~acc[g].dirty
        /\ pc[g] = "list_unlock" =>
              /\ w[g].status = StatusOK
              /\ w[g].kind = "array"
              /\ Len(w[g].posts) = Cardinality(DOMAIN pre[g].posts)
              /\ Range(w[g].posts) = Values(pre[g].posts)

\* A list of two posts has been answered, the newer post first, while a
\* DELETE on the other goroutine waits for the lock.
C12_Witness ==
    \E g, h \in Procs :
        /\ pc[g] = "list_unlock"
        /\ Len(w[g].posts) = 2
        /\ w[g].posts[1].ID = 2
        /\ pc[h] = "del_lock" /\ Has(posts, id[h])

\* C13: nextID is greater than every key posts holds and than every key it
\* has ever held; the id a Create has just taken from nextID is one posts has
\* never held, so an id a Delete removed is not assigned again.
C13_NextIdAboveAll ==
    /\ \A k \in ever \cup DOMAIN posts : k < nextID
    /\ \A g \in Procs :
          pc[g] \in {"create_incr", "create_insert"} => p[g].ID \notin ever

\* Post 1 was created and deleted, and a later Create has answered with the
\* id 2: posts has held 1 and 2, holds 2 only, and nextID is 3.
C13_Witness ==
    \E g \in Procs :
        /\ pc[g] = "post_unlock"
        /\ w[g].status = StatusCreated
        /\ pre[g].posts = <<>>
        /\ ever = {1, 2}
        /\ DOMAIN posts = {2}
        /\ nextID = 3

\* C14: every key of posts maps to a Post whose ID is that key, also after
\* a Create whose body carried another id and after the update path has
\* stored the record it fetched.
C14_KeyIsId ==
    \A k \in DOMAIN posts : posts[k].ID = k

\* Post 1 came from a Create whose body carried the id 2, and an update of
\* it, sent with the id 2 as well, has stored it again and answered.
C14_Witness ==
    \E g \in Procs :
        /\ pc[g] = "post_unlock"
        /\ id[g] = 1
        /\ w[g].status = StatusOK
        /\ r[g].body.doc.hasID /\ r[g].body.doc.ID = 2
        /\ created = << <<1, "b">> >>
        /\ posts = (1 :> Post(1, "b"))

\* C15: at most one handler is between its Lock and its Unlock, and the
\* mutex is locked while one is; a request that has read or written posts or
\* nextID holds the lock it took, and no request takes the lock twice.
C15_MutualExclusion ==
    /\ Cardinality({ g \in Procs : pc[g] \in Critical }) <= 1
    /\ \A g \in Procs :
          /\ pc[g] \in Critical => postsMu /\ acc[g].locks = 1
          /\ acc[g].touched => pc[g] \in Critical /\ postsMu /\ acc[g].locks = 1
          /\ acc[g].locks <= 1

\* A Create is between its increment and its insert while a GET on the other
\* goroutine is blocked in Lock.
C15_Witness ==
    \E g, h \in Procs :
        /\ pc[g] = "create_insert"
        /\ acc[g].dirty
        /\ pc[h] = "get_lock"
        /\ postsMu

\* The places where a handler has written its response and is about to
\* return, through its deferred Unlock if it took the lock.
Exit == {"done", "list_unlock", "get_unlock", "post_unlock", "del_unlock"}

\* The mutex is locked exactly while a handler is between Lock and Unlock (so
\* never on behalf of a request that has returned); a response is there
\* exactly at the handler's exit; and while a request is in flight some
\* handler can take a step.
C16_Safety ==
    /\ postsMu <=> \E g \in Procs : pc[g] \in Critical
    /\ \A g \in Procs : w[g].status # 0 <=> pc[g] \in Exit
    /\ (\E g \in Procs : pc[g] # "idle") =>
           ENABLED (\E g \in Procs : HandlerStep(g) \/ LockStep(g))

\* C16: every exit path releases the lock, the 404 paths included: the mutex
\* is never left locked by a request that returned, the handlers never block
\* each other for good, and under fair scheduling every request that starts
\* gets its one response and returns.
C16_LockReleased ==
    /\ []C16_Safety
    /\ \A g \in Procs : (pc[g] # "idle") ~> (pc[g] \in Exit)
    /\ \A g \in Procs : (pc[g] \in Exit) ~> (pc[g] = "idle")

\* A DELETE of a post that is not there holds the lock with its 404 written,
\* about to return through the deferred Unlock, while the other goroutine's
\* POST waits in Lock.
C16_Witness ==
    \E g, h \in Procs :
        /\ pc[g] = "post_lock"
        /\ pc[h] = "del_unlock"
        /\ w[h] = NotFound
        /\ postsMu

\* The places where a handler that took the lock is about to run its deferred
\* Unlock.
Deferred == {"list_unlock", "get_unlock", "post_unlock", "del_unlock"}

C18_CheckOrder ==
    \A g \in Procs :
        (r[g].route = "/post/" /\ r[g].method = "POST") =>
            LET badId      == ~IsDecimal(r[g].seg)
                unreadable == ~r[g].body.readable
                unparsable == r[g].body.doc.kind \notin {"object", "null"}
                unlocked   == pc[g] = "done" /\ acc[g] = NoAccess
            IN  /\ badId =>
                    /\ unlocked
                    /\ w[g] = Error(NoResponse, "Invalid post ID", StatusBadRequest)
                /\ ~badId /\ unreadable =>
                    /\ unlocked
                    /\ w[g] = Error(NoResponse, "Error reading request body",
                                    StatusInternalServerError)
                /\ ~badId /\ ~unreadable /\ unparsable =>
                    /\ unlocked
                    /\ w[g] = Error(NoResponse, "Error parsing request body",
                                    StatusBadRequest)
                /\ ~badId /\ ~unreadable /\ ~unparsable =>
                    /\ pc[g] # "done"
                    /\ pc[g] # "post_lock" => acc[g].locks = 1
                    /\ pc[g] = "post_unlock" =>
                           w[g].status = IF id[g] = 0 THEN StatusCreated
                                         ELSE IF Has(pre[g].posts, id[g]) THEN StatusOK
                                         ELSE StatusNotFound

\* A POST /post/0 whose body cannot be read has been answered 500 and a POST
\* /post/1 whose body is no JSON has been answered 400, neither having asked
\* for the lock, although post 1 exists.
C18_Witness ==
    \E g, h \in Procs :
        /\ r[g].method = "POST" /\ r[g].seg = <<"0">> /\ ~r[g].body.readable
        /\ w[g].status = StatusInternalServerError /\ acc[g] = NoAccess
        /\ r[h].method = "POST" /\ r[h].seg = <<"1">> /\ r[h].body.readable
        /\ r[h].body.doc.kind = "empty"
        /\ w[h].status = StatusBadRequest /\ acc[h] = NoAccess
        /\ Has(posts, 1)

\* What one step may do to the entry under key i: leave it as it is, put it
\* there (the insert of a Create, with the id the Create assigned and the body
\* its request submitted), or take it away (the delete of a DELETE /post/i).
EntryStep(i) ==
    /\ Has(posts, i) /\ Has(posts', i) => posts'[i] = posts[i]
    /\ ~Has(posts, i) /\ Has(posts', i) =>
           \E g \in Procs :
               /\ pc[g] = "create_insert" /\ pc'[g] = "create_write"
               /\ r[g].method = "POST" /\ id[g] = 0
               /\ posts'[i] = Post(i, Submitted(r[g]))
    /\ Has(posts, i) /\ ~Has(posts', i) =>
           \E g \in Procs :
               /\ pc[g] = "del_check" /\ pc'[g] = "del_write"
               /\ r[g].method = "DELETE" /\ id[g] = i

\* C19: a stored post never changes. In every step each entry of posts either
\* stays exactly as it is, or appears by the insert of a Create with the body
\* that Create submitted, or disappears by the delete of a DELETE for its id;
\* no update, get, list or other request alters it in between.
C19_Immutable ==
    [][\A i \in DOMAIN posts \cup DOMAIN posts' : EntryStep(i)]_vars

\* An update of a stored post, submitting another body than the stored one,
\* has answered 200 after a second post was created, and the stored post still
\* has the body of its Create.
C19_Witness ==
    \E g \in Procs :
        /\ pc[g] = "post_unlock"
        /\ w[g].status = StatusOK
        /\ Has(posts, id[g])
        /\ Submitted(r[g]) # posts[id[g]].Body
        /\ posts[id[g]].Body = BodyOf(id[g])
        /\ Len(created) = 2

\* C20: every key of posts lies in 1 .. nextID-1, although the id of a
\* request may be zero or negative: a GET or DELETE with an id <= 0 answers
\* 404, a POST with a negative id takes the update path, answers 404 and
\* inserts nothing, and a POST with the id 0 inserts under the nextID it found,
\* never under the key 0.
C20_KeysInRange ==
    /\ DOMAIN posts \subseteq 1 .. (nextID - 1)
    /\ \A g \in Procs :
          /\ (pc[g] \in {"get_unlock", "del_unlock"} /\ id[g] <= 0) =>
                 w[g] = NotFound /\ posts = pre[g].posts
          /\ (pc[g] = "post_unlock" /\ id[g] < 0) =>
                 w[g] = NotFound /\ posts = pre[g].posts
          /\ (pc[g] = "post_unlock" /\ id[g] = 0) =>
                 /\ w[g].status = StatusCreated
                 /\ pre[g].nextID >= 1
                 /\ DOMAIN posts = DOMAIN pre[g].posts \cup {pre[g].nextID}
                 /\ ~Has(posts, 0)

\* With the posts 1 and 2 stored, a POST /post/-1 has answered 404 and a GET
\* /post/0 waits for the lock.
C20_Witness ==
    \E g, h \in Procs :
        /\ pc[g] = "post_unlock"
        /\ r[g].seg = <<"-", "1">> /\ id[g] = 0 - 1
        /\ w[g] = NotFound
        /\ DOMAIN posts = {1, 2}
        /\ pc[h] = "get_lock"
        /\ r[h].seg = <<"0">> /\ id[h] = 0

====
